---- MODULE Spec2Model ----
(***************************************************************************)
(* Model of src/lex.cpp: lak::suffix_trie_t (a compressed prefix trie of   *)
(* registered token strings) and lex::next_token (the scanner that walks   *)
(* a byte stream against the trie).                                        *)
(*                                                                         *)
(* A byte is a one-character string, or a name for a byte a TLA+ string    *)
(* cannot hold: NUL stands for the byte 0 and EOFCH for (char)EOF, the     *)
(* byte std::istream::peek()/get() yield at the end of the stream once     *)
(* narrowed to char.  A std::string is a sequence of bytes.                *)
(***************************************************************************)
EXTENDS Integers, Sequences, FiniteSets, TLC

VARIABLES tokens, registered, lastSet, nsets, regs, strm, opened, rtn, out, nend

vars == <<tokens, registered, lastSet, nsets, regs, strm, opened, rtn, out, nend>>

(***************************************************************************)
(* Bounds                                                                  *)
(***************************************************************************)
MaxSets == 3      \* set calls in a trie-building run
MaxKeyLen == 2    \* longest key passed to set in a trie-building run
MaxLen == 3       \* longest enumerated input stream
MaxEnd == 2       \* next_token calls that return END in one run

(***************************************************************************)
(* Bytes and std::string                                                   *)
(***************************************************************************)
NUL == "NUL"
EOFCH == "EOF"
GRAVE == "GRAVE"   \* the byte 0x60
APOS == "APOS"     \* the byte 0x27

\* str[i] of a std::string, 0-based; str[size()] is the terminating 0
CharAt(str, i) == IF i < Len(str) THEN str[i + 1] ELSE NUL

\* str.substr(pos)
substr(str, pos) == SubSeq(str, pos + 1, Len(str))

\* str.substr(0, n)
substr0(str, n) == SubSeq(str, 1, n)

\* std::strncmp(a.c_str(), b.c_str(), n) == 0
RECURSIVE strncmp_eq_from(_, _, _, _)
strncmp_eq_from(a, b, i, n) ==
    IF i >= n THEN TRUE
    ELSE IF CharAt(a, i) # CharAt(b, i) THEN FALSE
    ELSE IF CharAt(a, i) = NUL THEN TRUE
    ELSE strncmp_eq_from(a, b, i + 1, n)

strncmp_eq(a, b, n) == strncmp_eq_from(a, b, 0, n)

(***************************************************************************)
(* lak::suffix_trie_t<token_type>                                          *)
(***************************************************************************)
END == "END"
USER == "USER"
KEYWORD == "KEYWORD"
SYMBOL == "SYMBOL"

nullptr == [null |-> TRUE]

\* suffix_trie_t(), suffix_trie_t(str) and suffix_trie_t(str, val)
NoChildren == <<>>
Node(str, val) == [key |-> str, values |-> val, children |-> NoChildren]
EmptyTrie == Node(<<>>, <<>>)

find_partial(node, c) ==
    IF c \in DOMAIN node.children THEN node.children[c] ELSE nullptr

find_exact(node, str) ==
    LET c == CharAt(str, 0) IN
    IF c \in DOMAIN node.children /\ node.children[c].key = str
    THEN node.children[c]
    ELSE nullptr

isTerminal(node) == Cardinality(DOMAIN node.children) = 0

\* children[c] = child
PutChild(node, c, child) ==
    [node EXCEPT !.children = (c :> child) @@ @]

\* the for loop that measures the common leading substring
RECURSIVE SameLen(_, _, _)
SameLen(str, k, same) ==
    IF same < Len(str) /\ same < Len(k) /\ CharAt(str, same) = CharAt(k, same)
    THEN SameLen(str, k, same + 1)
    ELSE same

\* Split whose replacement node never carries val when str is a prefix of k
Split_noValues(node, it, str, val) ==
    LET k == it.key
        same == SameLen(str, k, 1)
        commonstr == substr0(str, same)
        oldstr == substr(k, same)
        setstr == substr(str, same)
        replacement0 ==
            IF same = Len(str)
            THEN Node(commonstr, <<>>)
            ELSE PutChild(Node(commonstr, <<>>), CharAt(setstr, 0), Node(setstr, val))
        replacement ==
            PutChild(replacement0, CharAt(oldstr, 0), [it EXCEPT !.key = oldstr])
    IN  PutChild(node, CharAt(commonstr, 0), replacement)

\* Split without the assignment it->key = oldstr
Split_keepsKey(node, it, str, val) ==
    LET k == it.key
        same == SameLen(str, k, 1)
        commonstr == substr0(str, same)
        oldstr == substr(k, same)
        setstr == substr(str, same)
        replacement0 ==
            IF same = Len(str)
            THEN Node(commonstr, val)
            ELSE PutChild(Node(commonstr, <<>>), CharAt(setstr, 0), Node(setstr, val))
        replacement ==
            PutChild(replacement0, CharAt(oldstr, 0), it)
    IN  PutChild(node, CharAt(commonstr, 0), replacement)

\* Split that keeps the old child under the byte of its old key: k[0]
\* instead of oldstr[0]
Split_oldSlot(node, it, str, val) ==
    LET k == it.key
        same == SameLen(str, k, 1)
        commonstr == substr0(str, same)
        oldstr == substr(k, same)
        setstr == substr(str, same)
        replacement0 ==
            IF same = Len(str)
            THEN Node(commonstr, val)
            ELSE PutChild(Node(commonstr, <<>>), CharAt(setstr, 0), Node(setstr, val))
        replacement ==
            PutChild(replacement0, CharAt(k, 0), [it EXCEPT !.key = oldstr])
    IN  PutChild(node, CharAt(commonstr, 0), replacement)

\* Split that never attaches the new leaf for the rest of str
Split_noLeaf(node, it, str, val) ==
    LET k == it.key
        same == SameLen(str, k, 1)
        commonstr == substr0(str, same)
        oldstr == substr(k, same)
        setstr == substr(str, same)
        replacement0 ==
            IF same = Len(str)
            THEN Node(commonstr, val)
            ELSE Node(commonstr, <<>>)
        replacement ==
            PutChild(replacement0, CharAt(oldstr, 0), [it EXCEPT !.key = oldstr])
    IN  PutChild(node, CharAt(commonstr, 0), replacement)

\* the else branch of set: split the slot at the largest common substring
Split(node, it, str, val) ==
    LET k == it.key
        same == SameLen(str, k, 1)
        commonstr == substr0(str, same)
        oldstr == substr(k, same)
        setstr == substr(str, same)
        replacement0 ==
            IF same = Len(str)
            THEN Node(commonstr, val)
            ELSE PutChild(Node(commonstr, <<>>), CharAt(setstr, 0), Node(setstr, val))
        replacement ==
            PutChild(replacement0, CharAt(oldstr, 0), [it EXCEPT !.key = oldstr])
    IN  PutChild(node, CharAt(commonstr, 0), replacement)

\* set that appends val to the values of an existing key instead of
\* assigning it
RECURSIVE set_appends(_, _, _)
set_appends(node, str, val) ==
    LET c == CharAt(str, 0)
        it == find_partial(node, c)
    IN  IF it # nullptr
        THEN LET k == it.key IN
             IF Len(str) >= Len(k) /\ strncmp_eq(str, k, Len(k))
             THEN IF Len(str) = Len(k)
                  THEN PutChild(node, c, [it EXCEPT !.values = @ \o val])
                  ELSE PutChild(node, c, set_appends(it, substr(str, Len(k)), val))
             ELSE Split(node, it, str, val)
        ELSE PutChild(node, c, Node(str, val))

RECURSIVE set(_, _, _)
set(node, str, val) ==
    LET c == CharAt(str, 0)
        it == find_partial(node, c)
    IN  IF it # nullptr
        THEN LET k == it.key IN
             IF Len(str) >= Len(k) /\ strncmp_eq(str, k, Len(k))
             THEN IF Len(str) = Len(k)
                  THEN PutChild(node, c, [it EXCEPT !.values = val])
                  ELSE PutChild(node, c, set(it, substr(str, Len(k)), val))
             ELSE Split(node, it, str, val)
        ELSE PutChild(node, c, Node(str, val))

(***************************************************************************)
(* namespace lex: byte classes                                             *)
(***************************************************************************)
LowerCase == {"a","b","c","d","e","f","g","h","i","j","k","l","m",
              "n","o","p","q","r","s","t","u","v","w","x","y","z"}
UpperCase == {"A","B","C","D","E","F","G","H","I","J","K","L","M",
              "N","O","P","Q","R","S","T","U","V","W","X","Y","Z"}
Digits == {"0","1","2","3","4","5","6","7","8","9"}

\* std::isspace(c, std::locale("C")): space, \t, \n, \v, \f, \r
VT == "VT"
isspace(c) == c \in {" ", "\t", "\n", VT, "\f", "\r"}

is_letter(c) == c \in LowerCase \/ c \in UpperCase
is_number(c) == c \in Digits
is_alphanumeric(c) == is_letter(c) \/ is_number(c)

\* hit_word_boundry without the test c1 == 0 for "no previous byte"
hit_word_boundry_noSentinel(c1, c2) ==
    IF isspace(c2) THEN TRUE
    ELSE IF is_alphanumeric(c1) # is_alphanumeric(c2) THEN TRUE
    ELSE FALSE

hit_word_boundry(c1, c2) ==
    IF c1 = NUL THEN FALSE
    ELSE IF isspace(c2) THEN TRUE
    ELSE IF is_alphanumeric(c1) # is_alphanumeric(c2) THEN TRUE
    ELSE FALSE

(***************************************************************************)
(* std::istream over a byte buffer: pos bytes consumed, and the state bits *)
(* Each operation yields the byte it returns (c) and the stream after (s). *)
(***************************************************************************)
good(s) == ~s.eofbit /\ ~s.failbit /\ ~s.badbit

peek(s) ==
    IF ~good(s) THEN [c |-> EOFCH, s |-> [s EXCEPT !.failbit = TRUE]]
    ELSE IF s.pos < Len(s.buf) THEN [c |-> s.buf[s.pos + 1], s |-> s]
    ELSE [c |-> EOFCH, s |-> [s EXCEPT !.eofbit = TRUE]]

get(s) ==
    IF ~good(s) THEN [c |-> EOFCH, s |-> [s EXCEPT !.failbit = TRUE]]
    ELSE IF s.pos < Len(s.buf)
    THEN [c |-> s.buf[s.pos + 1], s |-> [s EXCEPT !.pos = @ + 1]]
    ELSE [c |-> EOFCH, s |-> [s EXCEPT !.eofbit = TRUE, !.failbit = TRUE]]

unget(s) ==
    LET s1 == [s EXCEPT !.eofbit = FALSE] IN
    IF ~good(s1) THEN [s1 EXCEPT !.failbit = TRUE]
    ELSE IF s1.pos = 0 THEN [s1 EXCEPT !.badbit = TRUE]
    ELSE [s1 EXCEPT !.pos = @ - 1]

(***************************************************************************)
(* lex::next_token                                                         *)
(***************************************************************************)
Token(type, value) == [type |-> type, value |-> value]

\* while (strm.good() && isspace((char)strm.peek(), loc)) strm.get();
RECURSIVE SkipWhitespace(_)
SkipWhitespace(s) ==
    IF ~good(s) THEN s
    ELSE LET pk == peek(s) IN
         IF isspace(pk.c) THEN SkipWhitespace(get(pk.s).s) ELSE pk.s

\* the condition of the if in the loop body, evaluated left to right with
\* short circuit; strm.peek() is only reached in the last disjunct
EndCondition(trie, s, p, c, str) ==
    LET it == find_exact(trie, str) IN
    IF hit_word_boundry(p, c) THEN [hit |-> TRUE, s |-> s]
    ELSE IF ~(it # nullptr /\ Len(it.values) > 0 /\ it.values[1] = SYMBOL)
    THEN [hit |-> FALSE, s |-> s]
    ELSE IF isTerminal(it) THEN [hit |-> TRUE, s |-> s]
    ELSE LET pk == peek(s) IN
         [hit |-> find_exact(trie, Append(str, pk.c)) = nullptr, s |-> pk.s]

\* FoundToken without the assignment rtn.type = USER of the else branch:
\* rtn keeps the type END it was initialised with
FoundToken_keepsType(trie, str) ==
    LET it == find_exact(trie, str) IN
    IF it # nullptr /\ Len(it.values) > 0
    THEN Token(it.values[1], str)
    ELSE Token(END, str)

\* the token assigned to rtn once the end of the token is reached
FoundToken(trie, str) ==
    LET it == find_exact(trie, str) IN
    IF it # nullptr /\ Len(it.values) > 0
    THEN Token(it.values[1], str)
    ELSE Token(USER, str)

\* for (char p = 0, c = strm.get(); strm.good(); c = strm.get()) { ... }
\* entered after the initialising strm.get(); yields rtn and the stream
RECURSIVE ScanLoop(_, _, _, _, _)
ScanLoop(trie, s, p, c, str) ==
    IF ~good(s) THEN [rtn |-> Token(END, <<>>), strm |-> s]
    ELSE LET e == EndCondition(trie, s, p, c, str) IN
         IF e.hit
         THEN [rtn |-> FoundToken(trie, str), strm |-> e.s]
         ELSE LET g == get(e.s) IN
              ScanLoop(trie, g.s, c, g.c, Append(str, c))

\* the values str has at the start of the iterations of the for loop
RECURSIVE ScanTexts(_, _, _, _, _)
ScanTexts(trie, s, p, c, str) ==
    IF ~good(s) THEN {}
    ELSE LET e == EndCondition(trie, s, p, c, str) IN
         IF e.hit THEN {str}
         ELSE LET g == get(e.s) IN
              {str} \cup ScanTexts(trie, g.s, c, g.c, Append(str, c))

\* next_token that registers the unknown text it returns in lex::tokens
next_token_interns(trie, s) ==
    LET s1 == SkipWhitespace(s)
        g == get(s1)
        r == ScanLoop(trie, g.s, NUL, g.c, <<>>)
    IN  [rtn |-> r.rtn,
         strm |-> IF good(r.strm) THEN unget(r.strm) ELSE r.strm,
         tokens |-> IF r.rtn.type = USER THEN set(trie, r.rtn.value, <<USER>>) ELSE trie]

\* yields rtn, the stream after the call and lex::tokens after the call:
\* the trie is only read, through find_exact and isTerminal
next_token(trie, s) ==
    LET s1 == SkipWhitespace(s)
        g == get(s1)
        r == ScanLoop(trie, g.s, NUL, g.c, <<>>)
    IN  [rtn |-> r.rtn,
         strm |-> IF good(r.strm) THEN unget(r.strm) ELSE r.strm,
         tokens |-> trie]

(***************************************************************************)
(* Recorded history: nsets counts the set calls made and lastSet holds the *)
(* arguments of the last one, registered maps each key passed to set to    *)
(* the values of its last call, out is the sequence of tokens next_token   *)
(* has returned and rtn the last of them.                                  *)
(***************************************************************************)
NoStream == [buf |-> <<>>, pos |-> 0, eofbit |-> FALSE, failbit |-> FALSE, badbit |-> FALSE]
NoToken == [type |-> "none", value |-> <<>>]
Reg(str, val) == [key |-> str, values |-> val]
NoSet == Reg(<<>>, <<>>)

\* lex::tokens.set(str, val)
Set(str, val) ==
    /\ tokens' = set(tokens, str, val)
    /\ registered' = (str :> val) @@ registered
    /\ lastSet' = Reg(str, val)
    /\ nsets' = nsets + 1

(***************************************************************************)
(* Trie-building runs: any sequence of set calls on the global trie        *)
(***************************************************************************)
KeyBytes == {"=", "-"}

RECURSIVE SeqsUpTo(_, _)
SeqsUpTo(S, n) ==
    IF n = 0 THEN {<<>>}
    ELSE LET shorter == SeqsUpTo(S, n - 1) IN
         shorter \cup {Append(s, b) : s \in shorter, b \in S}

Keys == SeqsUpTo(KeyBytes, MaxKeyLen)
Values == {<<KEYWORD>>, <<SYMBOL>>}

Init ==
    /\ tokens = EmptyTrie
    /\ registered = <<>>
    /\ lastSet = NoSet
    /\ nsets = 0
    /\ regs = <<>>
    /\ strm = NoStream
    /\ opened = FALSE
    /\ rtn = NoToken
    /\ out = <<>>
    /\ nend = 0

SetLiteral ==
    /\ nsets < MaxSets
    /\ \E str \in Keys \ {<<>>}, val \in Values : Set(str, val)
    /\ UNCHANGED <<regs, strm, opened, rtn, out, nend>>

SetEmpty ==
    /\ nsets < MaxSets
    /\ \E val \in Values : Set(<<>>, val)
    /\ UNCHANGED <<regs, strm, opened, rtn, out, nend>>

Next == SetLiteral \/ SetEmpty

Spec == Init /\ [][Next]_vars

(***************************************************************************)
(* Scanning runs, after main(): the registration loops fill the trie from  *)
(* the symbol and keyword lists, then the stream is opened and next_token  *)
(* is called on it.                                                        *)
(***************************************************************************)
symbols == <<
    <<"~">>, <<"~","=">>, <<GRAVE>>, <<"!">>, <<"!","=">>, <<"@">>,
    <<"#">>, <<"$">>, <<"%">>, <<"%","=">>, <<"^">>, <<"^","=">>,
    <<"&">>, <<"&","=">>, <<"&","&">>, <<"*">>, <<"*","=">>, <<"-">>,
    <<"-","=">>, <<"+">>, <<"+","=">>, <<"=">>, <<"(">>, <<")">>,
    <<"[">>, <<"}">>, <<"[">>, <<"]">>, <<"|">>, <<"|","=">>,
    <<"|","|">>, <<":">>, <<";">>, <<"<">>, <<"<","=">>, <<">">>,
    <<">","=">>, <<"=","=">>, <<",">>, <<".">>, <<"?">>, <<"/">>,
    <<APOS>>, <<"-",">">>, <<"\"">>, <<"\\">> >>

keywords == <<
    <<"f","o","r">>, <<"w","h","i","l","e">>, <<"i","f">>,
    <<"s","w","i","t","c","h">>, <<"c","a","s","e">>,
    <<"d","e","f","a","u","l","t">>, <<"b","r","e","a","k">>,
    <<"c","o","n","s","t">>, <<"c","o","n","s","t","e","x","p","r">>,
    <<"r","e","t","u","r","n">>, <<"f","r","i","e","n","d">>,
    <<"p","u","b","l","i","c">>, <<"p","r","i","v","a","t","e">>,
    <<"p","r","o","t","e","c","t","e","d">>,
    <<"s","t","r","u","c","t">>, <<"e","n","u","m">>,
    <<"u","n","i","o","n">>, <<"c","l","a","s","s">> >>

RegAll(strs, type) == [i \in 1..Len(strs) |-> Reg(strs[i], <<type>>)]

\* the registrations main() makes, in order
MainRegs == RegAll(symbols, SYMBOL) \o RegAll(keywords, KEYWORD)

\* smaller registration lists: parts of main()'s lists
IfRegs == RegAll(<< <<"(">>, <<")">> >>, SYMBOL) \o RegAll(<< <<"i","f">> >>, KEYWORD)
EqRegs == RegAll(<< <<"=">>, <<"=","=">> >>, SYMBOL)
MinusRegs == RegAll(<< <<"-">>, <<"-","=">>, <<"-",">">> >>, SYMBOL)
ArrowRegs == RegAll(<< <<"-","=">>, <<"-",">">> >>, SYMBOL)

RegLists == {MainRegs, IfRegs, EqRegs, MinusRegs, ArrowRegs}

InputBytes == {"i", "f", "x", "1", "(", ")", "=", "-", " ", NUL}

NamedInputs == {
    <<"i","f","(","x",")">>,
    <<"f","o","r"," ">>,
    <<"-",">","x"," ">> }

Inputs == SeqsUpTo(InputBytes, MaxLen) \cup NamedInputs

InitScan ==
    /\ tokens = EmptyTrie
    /\ registered = <<>>
    /\ lastSet = NoSet
    /\ nsets = 0
    /\ regs \in RegLists
    /\ strm = NoStream
    /\ opened = FALSE
    /\ rtn = NoToken
    /\ out = <<>>
    /\ nend = 0

\* one iteration of the registration loops of main()
Register ==
    /\ ~opened
    /\ regs # <<>>
    /\ Set(Head(regs).key, Head(regs).values)
    /\ regs' = Tail(regs)
    /\ UNCHANGED <<strm, opened, rtn, out, nend>>

\* ifstream strm(filename, in | binary) on a file holding the bytes input
Open ==
    /\ ~opened
    /\ regs = <<>>
    /\ \E input \in Inputs : strm' = [NoStream EXCEPT !.buf = input]
    /\ opened' = TRUE
    /\ UNCHANGED <<tokens, registered, lastSet, nsets, regs, rtn, out, nend>>

\* t = lex::next_token(strm)
NextToken ==
    /\ opened
    /\ nend < MaxEnd
    /\ LET r == next_token(tokens, strm) IN
        /\ tokens' = r.tokens
        /\ strm' = r.strm
        /\ rtn' = r.rtn
        /\ out' = Append(out, r.rtn)
        /\ nend' = IF r.rtn.type = END THEN nend + 1 ELSE nend
    /\ UNCHANGED <<registered, lastSet, nsets, regs, opened>>

NextScan == Register \/ Open \/ NextToken

SpecScan == InitScan /\ [][NextScan]_vars

(***************************************************************************)
(* Properties                                                              *)
(***************************************************************************)
Last(seq) == seq[Len(seq)]

ProperPrefix(a, b) == Len(a) < Len(b) /\ SubSeq(b, 1, Len(a)) = a

NoEmptyKey == <<>> \notin DOMAIN registered

\* the root's find_exact(str) returns a node whose values are val
Finds(trie, str, val) ==
    /\ find_exact(trie, str) # nullptr
    /\ find_exact(trie, str).values = val

RECURSIVE Concat(_)
Concat(toks) ==
    IF toks = <<>> THEN <<>> ELSE Head(toks).value \o Concat(Tail(toks))

NotSpace(c) == ~isspace(c)

\* C1: immediately after set(L, V), with only non-empty keys set so far on the
\* initially empty trie, the root's find_exact(L) returns a node whose values
\* equal V.
C1_RoundTrip ==
    (nsets > 0 /\ NoEmptyKey) =>
        Finds(tokens, lastSet.key, lastSet.values)

\* C2: when two SYMBOL literals are registered and one is a proper prefix of
\* the other, the first token scanned from an input that consists of the
\* longer literal is one SYMBOL token whose text is the longer literal.
C2_MaximalMunch ==
    \A l \in DOMAIN registered, s \in DOMAIN registered :
        ( /\ registered[l] = <<SYMBOL>> /\ registered[s] = <<SYMBOL>>
          /\ s # <<>> /\ ProperPrefix(s, l)
          /\ opened /\ strm.buf = l /\ out # <<>> )
        => out[1] = Token(SYMBOL, l)

\* C3: every non-END token returned has the first category registered for its
\* text when the text is a literal registered with a non-empty category list,
\* and the category USER otherwise.
C3_Classification ==
    \A i \in 1..Len(out) :
        out[i].type # END =>
            LET s == out[i].value IN
            IF s \in DOMAIN registered /\ Len(registered[s]) > 0
            THEN out[i].type = registered[s][1]
            ELSE out[i].type = USER

\* C4: with "if" a KEYWORD and "(" and ")" SYMBOLs, the calls on the input
\* "if(x)" return KEYWORD "if", SYMBOL "(", USER "x", SYMBOL ")", END "" in
\* this order.
IfParenX == <<"i","f","(","x",")">>
IfParenXTokens ==
    << Token(KEYWORD, <<"i","f">>), Token(SYMBOL, <<"(">>), Token(USER, <<"x">>),
       Token(SYMBOL, <<")">>), Token(END, <<>>) >>
IfParenRegistered ==
    /\ {<<"i","f">>, <<"(">>, <<")">>} \subseteq DOMAIN registered
    /\ registered[<<"i","f">>] = <<KEYWORD>>
    /\ registered[<<"(">>] = <<SYMBOL>>
    /\ registered[<<")">>] = <<SYMBOL>>
C4_NoWhitespaceNeeded ==
    (opened /\ strm.buf = IfParenX /\ IfParenRegistered) =>
        \A i \in 1..Len(out) : i <= Len(IfParenXTokens) => out[i] = IfParenXTokens[i]

\* C5: a call returns END, with empty text, only if every byte that was still
\* unconsumed when the call was made is whitespace.
C5_EndOnlyWhenExhausted ==
    [][(opened /\ out' # out /\ rtn'.type = END) =>
          /\ rtn'.value = <<>>
          /\ \A i \in (strm.pos + 1)..Len(strm.buf) : isspace(strm.buf[i])]_vars

\* C6: once END is returned, the texts of the tokens returned before it,
\* concatenated, are the input without its whitespace bytes (stated for the
\* inputs without a zero byte, in which whitespace only stands between
\* tokens).
C6_CursorContinuity ==
    (opened /\ nend >= 1 /\ \A i \in 1..Len(strm.buf) : strm.buf[i] # NUL) =>
        Concat(out) = SelectSeq(strm.buf, NotSpace)

\* C7: a key K that find_exact returns with its registered values is still
\* returned with these values after a set call for another non-empty key.
C7_EarlierSurvive ==
    [][\A K \in DOMAIN registered :
          ( /\ K # <<>> /\ Finds(tokens, K, registered[K])
            /\ nsets' # nsets /\ lastSet'.key # K /\ lastSet'.key # <<>> )
          => Finds(tokens', K, registered[K])]_vars

\* C8: when the input is a registered KEYWORD followed by further
\* alphanumeric bytes, the first token returned is one USER token whose text
\* is the whole input.
C8_BoundaryCorrectness ==
    \A K \in DOMAIN registered :
        ( /\ registered[K] = <<KEYWORD>> /\ K # <<>>
          /\ opened /\ out # <<>>
          /\ ProperPrefix(K, strm.buf)
          /\ \A i \in 1..Len(strm.buf) : is_alphanumeric(strm.buf[i]) )
        => out[1] = Token(USER, strm.buf)

\* C9: once a call has returned END, every later call returns END with empty
\* text and leaves the stream cursor where it was.
C9_ExhaustionIdempotent ==
    [][(out # <<>> /\ rtn.type = END /\ out' # out) =>
          (rtn' = Token(END, <<>>) /\ strm'.pos = strm.pos)]_vars

\* two calls have returned END after at least one token was returned
C9_Witness ==
    /\ Len(out) >= 3
    /\ out[1].type # END
    /\ out[Len(out) - 1].type = END
    /\ Last(out) = Token(END, <<>>)

\* C10: set("", V) is rejected: no child of the root has an empty key and
\* find_exact("") returns no node.
C10_EmptyRejected ==
    /\ find_exact(tokens, <<>>) = nullptr
    /\ \A c \in DOMAIN tokens.children : tokens.children[c].key # <<>>

(***************************************************************************)
(* Properties of the trie as a whole                                       *)
(***************************************************************************)
\* the orders in which the keys of S can be registered
Orders(S) ==
    {f \in [1..Cardinality(S) -> S] : \A i, j \in DOMAIN f : f[i] = f[j] => i = j}

\* the trie after set(order[i], registered[order[i]]) for i = from, from + 1, ...
RECURSIVE BuildFrom(_, _, _)
BuildFrom(trie, order, from) ==
    IF from > Len(order) THEN trie
    ELSE BuildFrom(set(trie, order[from], registered[order[from]]), order, from + 1)

\* the pairs (keys concatenated from the root, values) of the nodes below
\* node that have values; prefix is the concatenation down to node
RECURSIVE PathPairs(_, _)
PathPairs(node, prefix) ==
    UNION { LET child == node.children[c]
                path == prefix \o child.key
            IN  (IF child.values # <<>> THEN {<<path, child.values>>} ELSE {})
                    \cup PathPairs(child, path)
            : c \in DOMAIN node.children }

\* the number of nodes below node that have values
RECURSIVE Sum(_, _)
Sum(f, S) ==
    IF S = {} THEN 0
    ELSE LET x == CHOOSE y \in S : TRUE IN f[x] + Sum(f, S \ {x})

RECURSIVE CountValued(_)
CountValued(node) ==
    Sum([c \in DOMAIN node.children |->
            (IF node.children[c].values # <<>> THEN 1 ELSE 0)
                + CountValued(node.children[c])],
        DOMAIN node.children)

\* every child below node is stored under the first byte of its key
RECURSIVE SlotsMatch(_)
SlotsMatch(node) ==
    \A c \in DOMAIN node.children :
        /\ CharAt(node.children[c].key, 0) = c
        /\ SlotsMatch(node.children[c])

\* every node below node has a key, and two children or more if it has no
\* values
RECURSIVE Compressed(_)
Compressed(node) ==
    \A c \in DOMAIN node.children :
        LET child == node.children[c] IN
        /\ child.key # <<>>
        /\ child.values = <<>> => Cardinality(DOMAIN child.children) >= 2
        /\ Compressed(child)

\* some node below node has no values
RECURSIVE HasBranchNode(_)
HasBranchNode(node) ==
    \E c \in DOMAIN node.children :
        node.children[c].values = <<>> \/ HasBranchNode(node.children[c])

\* some node below node has two children or more
RECURSIVE HasFork(_)
HasFork(node) ==
    \E c \in DOMAIN node.children :
        Cardinality(DOMAIN node.children[c].children) >= 2 \/ HasFork(node.children[c])

C12_SetIdempotent ==
    nsets > 0 => set(tokens, lastSet.key, lastSet.values) = tokens

\* the last set call was for a key that is a proper prefix of another
\* registered key, after two earlier calls
C12_Witness ==
    /\ nsets = 3
    /\ \E K \in DOMAIN registered : ProperPrefix(lastSet.key, K)

C15_SiblingInvariant ==
    NoEmptyKey => SlotsMatch(tokens)

\* some node other than the root has two children
C15_Witness ==
    NoEmptyKey /\ HasFork(tokens)

\* C20: after set calls with non-empty keys, every node below the root has a
\* non-empty key and every such node without values has at least two
\* children.
C20_Compression ==
    NoEmptyKey => Compressed(tokens)

\* a node without values exists and a further set call has been made since
C20_Witness ==
    /\ NoEmptyKey
    /\ HasBranchNode(tokens)
    /\ nsets = 3
    /\ Cardinality(DOMAIN registered) = 2

(***************************************************************************)
(* Properties of scanning                                                  *)
(***************************************************************************)
\* the texts str takes during the call of next_token on stream s
Accumulated(trie, s) ==
    LET g == get(SkipWhitespace(s)) IN ScanTexts(trie, g.s, NUL, g.c, <<>>)

\* t is a registered SYMBOL literal that no longer registered literal extends
TerminalSymbol(t) ==
    /\ t \in DOMAIN registered
    /\ registered[t] = <<SYMBOL>>
    /\ \A K \in DOMAIN registered : ~ProperPrefix(t, K)

\* no registered literal holds a byte of str
Unregistered(str) ==
    \A K \in DOMAIN registered :
        \A i \in 1..Len(K), j \in 1..Len(str) : K[i] # str[j]

\* C13: on an input made of digits only, none of them in a registered literal,
\* the first token returned is USER with the whole input as text and the
\* second is END.
C13_UnknownSequence ==
    ( /\ opened /\ strm.buf # <<>>
      /\ \A j \in 1..Len(strm.buf) : is_number(strm.buf[j])
      /\ Unregistered(strm.buf) )
    => /\ Len(out) >= 1 => out[1] = Token(USER, strm.buf)
       /\ Len(out) >= 2 => out[2] = Token(END, <<>>)

\* C16: when the text accumulated during a call is a registered SYMBOL literal
\* that no registered literal extends, and a further byte has been read after
\* it, the call returns SYMBOL with this text and leaves the stream good with
\* the cursor on that further byte.
C16_TerminalSymbolCut ==
    [][(opened /\ out' # out) =>
          \A t \in Accumulated(tokens, strm) :
              TerminalSymbol(t) =>
                  /\ rtn' = Token(SYMBOL, t)
                  /\ good(strm')
                  /\ strm'.pos = SkipWhitespace(strm).pos + Len(t)]_vars

\* C17: a call of next_token leaves every node of the trie as it was.
C17_ScanKeepsTrie ==
    [][out' # out => tokens' = tokens]_vars

\* USER, KEYWORD or SYMBOL tokens and END have been returned over main()'s trie
C17_Witness ==
    /\ Cardinality(DOMAIN registered) > 3
    /\ Len(out) >= 3
    /\ \E i \in 1..Len(out) : out[i].type = USER
    /\ \E i \in 1..Len(out) : out[i].type \in {KEYWORD, SYMBOL}
    /\ rtn.type = END

\* C18: with only non-empty literals registered, a call that returns a token
\* other than END returns non-empty text and moves the cursor forward, so
\* that no more tokens other than END are returned than the input has bytes.
C18_Progress ==
    [][(NoEmptyKey /\ out' # out /\ rtn'.type # END) =>
          /\ rtn'.value # <<>>
          /\ strm'.pos > strm.pos
          /\ Len(out') - nend' <= Len(strm.buf)]_vars

\* END has been returned after three tokens
C18_Witness ==
    /\ NoEmptyKey
    /\ Len(out) = 4
    /\ \A i \in 1..3 : out[i].type # END
    /\ out[4].type = END

\* C19: no token returned holds a whitespace byte in its text.
C19_NoWhitespaceInTokens ==
    \A i \in 1..Len(out) : \A j \in 1..Len(out[i].value) : ~isspace(out[i].value[j])
====
